---- MODULE Spec2Model ----
(***************************************************************************)
(* Model of the agentic RAG backend (src/backend): the LangGraph workflow  *)
(* rewrite -> retrieve -> (decide_exit) -> synthesize -> safety, the       *)
(* tenacity retry wrapper around rewrite_query, and the server-sent-event  *)
(* adapter stream_response.                                                *)
(*                                                                         *)
(* Text is a sequence of tokens (strings); a token stands for a run of     *)
(* characters, so prefixes, concatenation and joins are computed as the    *)
(* code computes them.  The reply to the faithfulness question is a        *)
(* sequence of single characters, because safety_check strips and          *)
(* lower-cases it before comparing it with "yes".                          *)
(***************************************************************************)
EXTENDS Integers, Sequences, FiniteSets, TLC

\* ---------------------------------------------------------------- bounds
\* the number of documents the retriever hands back in the model
MaxDocs == 2

\* ------------------------------------------------------ program constants
\* graph.py:43  @retry_with_backoff(retries=3, backoff_in_seconds=1)
retries == 3
backoff_in_seconds == 1
\* utils.py:9   wait_exponential(multiplier=..., min=1, max=10)
wait_min == 1
wait_max == 10
\* tenacity's default exp_base of wait_exponential
exp_base == 2
\* graph.py:74  len(state["context"]) < 100
context_threshold == 100
\* config.py:21 top_k: int = 5
top_k == 5

\* ------------------------------------------------------------ text helpers
None == "None"

RECURSIVE Join(_, _)
\* sep.join(parts)
Join(sep, parts) ==
    IF parts = <<>> THEN <<>>
    ELSE IF Len(parts) = 1 THEN Head(parts)
    ELSE Head(parts) \o sep \o Join(sep, Tail(parts))

\* the number of characters a token stands for
TokLen(tok) ==
    CASE tok = "p49" -> 49
      [] tok = "p50" -> 50
      [] tok = "\n" -> 1
      [] OTHER -> 1

RECURSIVE CharLen(_)
\* len(text)
CharLen(text) ==
    IF text = <<>> THEN 0 ELSE TokLen(Head(text)) + CharLen(Tail(text))

IsPrefix(p, t) == Len(p) <= Len(t) /\ SubSeq(t, 1, Len(p)) = p

Whitespace == {" ", "\n"}

RECURSIVE LStrip(_)
LStrip(cs) ==
    IF cs # <<>> /\ Head(cs) \in Whitespace THEN LStrip(Tail(cs)) ELSE cs

RECURSIVE RStrip(_)
RStrip(cs) ==
    IF cs # <<>> /\ cs[Len(cs)] \in Whitespace
    THEN RStrip(SubSeq(cs, 1, Len(cs) - 1)) ELSE cs

\* str.strip()
Strip(cs) == RStrip(LStrip(cs))

LowerChar(c) ==
    CASE c = "Y" -> "y"
      [] c = "E" -> "e"
      [] c = "S" -> "s"
      [] c = "N" -> "n"
      [] c = "O" -> "o"
      [] OTHER -> c

\* str.lower()
Lower(cs) == [i \in 1..Len(cs) |-> LowerChar(cs[i])]

\* ------------------------------------------------------------- messages
HumanMessage(content) == [role |-> "human", content |-> content]
AIMessage(content) == [role |-> "ai", content |-> content]

Last(s) == s[Len(s)]

\* ------------------------------------------------------------- exceptions
\* an exception is its type and, for tenacity's RetryError, the type of the
\* exception of the last attempt it wraps
Exc(type) == [type |-> type, last |-> None]

\* no exception
NoExc == Exc(None)

\* tenacity.RetryError(last_attempt)
RetryError(e) == [type |-> "RetryError", last |-> e.type]

\* str(e)
Str(e) ==
    IF e.type = "RetryError"
    THEN <<"RetryError[", "<Future raised ", e.last, ">", "]">>
    ELSE <<e.type>>

\* --------------------------------------------------------------- settings
\* config.py: the fields of Settings that decide the language model; an API
\* key is "" (the default) or some key
Providers == {"groq", "openai", "azure"}
ApiKeys == {"", "key"}
Settings ==
    { s \in [llm_provider : Providers, groq_api_key : ApiKeys,
             openai_api_key : ApiKeys] :
        s.groq_api_key = "" \/ s.openai_api_key = "" }

\* get_llm() followed by the module-level try/except: the client object, or
\* None when get_llm raised ValueError
get_llm(s) ==
    IF s.llm_provider = "groq"
    THEN IF s.groq_api_key = "" THEN None ELSE "ChatGroq"
    ELSE IF s.llm_provider = "openai"
    THEN IF s.openai_api_key = "" THEN None ELSE "OpenAIChat"
    ELSE None

\* ------------------------------------------------- the environment's answers
Queries == {<<>>, <<"asdkjasd">>, <<"What is the capital of France?">>}

\* what llm.invoke / structured_llm.invoke can raise
LLMErrors == {"ProviderError", "Timeout"}
StructuredErrors == {"SchemaError", "ProviderError"}

\* response.content of the rewrite call
RewriteReplies == {<<>>, <<"capital France">>}

\* StructuredAnswer(answer, citations)
StructuredAnswers ==
    { [answer |-> <<"Paris">>, citations |-> <<>>],
      [answer |-> <<"Paris">>, citations |-> <<"doc1", "doc2">>] }

\* response.content of the unstructured fallback call
FallbackReplies == {<<"Paris is the capital.">>}

\* response.content of the faithfulness call, character by character
SafetyReplies ==
    { <<"y", "e", "s">>,
      <<" ", "Y", "e", "s", "\n">>,
      <<"Y", "e", "s", ".">>,
      <<"N", "o">>,
      <<"i", "t", " ", "i", "s">> }

\* doc.page_content of the documents in the index
Passages == {<<"p49">>, <<"p50">>}

\* what retriever.invoke(query) can return
DocLists == UNION { [1..n -> Passages] : n \in 0..MaxDocs }

\* what reranker.predict(pairs) can return for n pairs
ScoreLists(n) == [1..n -> 1..MaxDocs]

\* ------------------------------------------------------------------ state
VARIABLES
    settings,        \* config.settings
    llm,             \* the module-level llm of graph, synthesize and safety
    pc,              \* where the compiled graph is
    state,           \* the State dict threaded through the nodes
    attempt_number,  \* tenacity's retry_state.attempt_number
    delays,          \* the sleeps tenacity made, in order
    attemptLog,      \* the outcome of every invocation of rewrite_query
    llmCalls,        \* every language-model call made, in order
    executed,        \* every node invocation, in order
    events,          \* events of astream_events not yet consumed
    raised,          \* the exception raised out of astream_events, or NoExc
    stream,          \* the fragments stream_response has yielded
    closed,          \* stream_response has returned
    failed_node,     \* the node whose function raised, or None
    retrieveOutcome, \* how the search and the rerank of retrieve_node went
    safetyOutcome,   \* what the faithfulness call of safety_check did
    synthOutcome,    \* what the calls of synthesize_answer did
    requests         \* the requests in flight together, each with its own
                     \* state, events and stream

vars == <<settings, llm, pc, state, attempt_number, delays, attemptLog,
          llmCalls, executed, events, raised, stream, closed, failed_node,
          retrieveOutcome, safetyOutcome, synthOutcome, requests>>

NoState == [messages |-> <<>>, query |-> <<>>, context |-> <<>>]

\* the requests served together
Requests == {1, 2}

\* what stream_response holds for one request before it starts; inputs is
\* the query and the answers of the dependencies the request has consumed
NoRequest ==
    [pc |-> "idle", state |-> NoState, attempt_number |-> 1,
     events |-> <<>>, raised |-> NoExc, stream |-> <<>>, closed |-> FALSE,
     inputs |-> <<>>]

Init ==
    /\ settings \in Settings
    /\ llm = [graph |-> get_llm(settings),
              synthesize |-> get_llm(settings),
              safety |-> get_llm(settings)]
    /\ pc = "idle"
    /\ state = NoState
    /\ attempt_number = 1
    /\ delays = <<>>
    /\ attemptLog = <<>>
    /\ llmCalls = <<>>
    /\ executed = <<>>
    /\ events = <<>>
    /\ raised = NoExc
    /\ stream = <<>>
    /\ closed = FALSE
    /\ failed_node = None
    /\ retrieveOutcome = None
    /\ safetyOutcome = [kind |-> None, content |-> <<>>]
    /\ synthOutcome = [structured |-> None, fallback |-> None]
    /\ requests = [r \in Requests |-> NoRequest]

\* ------------------------------------------------- events of astream_events
\* version "v2": every event's data is a dict keyed by "input", "output" or
\* "chunk"; the graph state is the value under that key
Event(ev, name, data) == [event |-> ev, name |-> name, data |-> data]

on_chain_start(name, s) == Event("on_chain_start", name, [input |-> s])
on_chain_end(name, s) == Event("on_chain_end", name, [output |-> s])
on_chain_stream(name, s) == Event("on_chain_stream", name, [chunk |-> s])

\* the events of a node that ran to completion, and of the run's end
NodeEvents(name, before, after) ==
    << on_chain_start(name, before), on_chain_end(name, after) >>
GraphEnd(s) ==
    << on_chain_stream("LangGraph", s), on_chain_end("LangGraph", s) >>

\* ------------------------------------------------------------ the workflow
\* decide_exit with the comparison off by one
decide_exit_le(s) ==
    IF CharLen(s.context) <= context_threshold THEN "end" ELSE "continue"

\* decide_exit(state)
decide_exit(s) ==
    IF CharLen(s.context) < context_threshold THEN "end" ELSE "continue"

\* the edges with rewrite wired to synthesize instead of retrieve
workflow_miswired(node, s) ==
    CASE node = "START" -> "rewrite"
      [] node = "rewrite" -> "synthesize"
      [] node = "retrieve" ->
            IF decide_exit(s) = "continue" THEN "synthesize" ELSE "END"
      [] node = "synthesize" -> "safety"
      [] node = "safety" -> "END"

\* the edges added to the StateGraph: the node that follows `node` when it
\* returned state s
workflow(node, s) ==
    CASE node = "START" -> "rewrite"
      [] node = "rewrite" -> "retrieve"
      [] node = "retrieve" ->
            IF decide_exit(s) = "continue" THEN "synthesize" ELSE "END"
      [] node = "synthesize" -> "safety"
      [] node = "safety" -> "END"

\* a node returned state `after`: the graph moves along its edge and
\* astream_events reports the node, and the end of the run when it ends
NodeReturns(node, before, after) ==
    /\ state' = after
    /\ pc' = workflow(node, after)
    /\ events' = events \o NodeEvents(node, before, after)
                   \o (IF workflow(node, after) = "END"
                       THEN GraphEnd(after) ELSE <<>>)
    /\ raised' = raised
    /\ failed_node' = failed_node

\* a node raised e: the run stops and astream_events raises e to its consumer
\* once the events already produced are delivered
NodeRaises(node, before, e) ==
    /\ pc' = "raised"
    /\ raised' = e
    /\ events' = events \o << on_chain_start(node, before) >>
    /\ failed_node' = node

\* ------------------------------------------------------------ retry wrapper
\* tenacity.stop_after_attempt(retries)
stop_after_attempt(n) == n >= retries

\* wait_exponential with the exponent counted from the attempt number
wait_exponential_late(n) ==
    LET exp == exp_base ^ n
        result == backoff_in_seconds * exp
        lo == IF wait_min > 0 THEN wait_min ELSE 0
        hi == IF result < wait_max THEN result ELSE wait_max
    IN IF lo > hi THEN lo ELSE hi

\* tenacity.wait_exponential(multiplier, min, max) after attempt n
wait_exponential(n) ==
    LET exp == exp_base ^ (n - 1)
        result == backoff_in_seconds * exp
        lo == IF wait_min > 0 THEN wait_min ELSE 0
        hi == IF result < wait_max THEN result ELSE wait_max
    IN IF lo > hi THEN lo ELSE hi

\* what retry_with_backoff raises when the attempts are exhausted and the
\* last attempt raised e (tenacity.retry without reraise=True)
retry_exhausted(e) == RetryError(e)

\* ------------------------------------------------------------- the request
\* stream_response, lines 41-48: the initial state and the start of the run
chat(q) ==
    /\ pc = "idle"
    /\ ~closed
    /\ LET s0 == [messages |-> <<HumanMessage(q)>>, query |-> q,
                  context |-> <<>>]
       IN /\ state' = s0
          /\ events' = events \o << on_chain_start("LangGraph", s0) >>
    /\ pc' = workflow("START", state')
    /\ UNCHANGED <<settings, llm, attempt_number, delays, attemptLog,
                   llmCalls, executed, raised, stream, closed, failed_node,
                   retrieveOutcome, safetyOutcome, synthOutcome, requests>>

\* ------------------------------------------------------------------ rewrite
RewritePrompt(s) ==
    <<"Rewrite this query for better retrieval: ">> \o Last(s.messages).content

\* one attempt of rewrite_query under retry_with_backoff; `out` is what
\* llm.invoke does when it is called
rewrite_query(out) ==
    /\ pc = "rewrite"
    /\ ~closed
    /\ executed' = Append(executed, "rewrite")
    /\ IF llm.graph = None
       THEN /\ out = [ok |-> TRUE, content |-> <<>>]
            /\ attemptLog' = Append(attemptLog, [ok |-> TRUE,
                                 value |-> Last(state.messages).content])
            /\ NodeReturns("rewrite", state,
                   [state EXCEPT !.query = Last(state.messages).content])
            /\ UNCHANGED <<llmCalls, attempt_number, delays>>
       ELSE /\ llmCalls' = Append(llmCalls,
                   [module |-> "graph", kind |-> "invoke",
                    prompt |-> RewritePrompt(state)])
            /\ IF out.ok
               THEN /\ attemptLog' = Append(attemptLog,
                           [ok |-> TRUE, value |-> out.content])
                    /\ NodeReturns("rewrite", state,
                           [state EXCEPT !.query = out.content])
                    /\ UNCHANGED <<attempt_number, delays>>
               ELSE /\ attemptLog' = Append(attemptLog,
                           [ok |-> FALSE, value |-> out.error])
                    /\ IF stop_after_attempt(attempt_number)
                       THEN /\ NodeRaises("rewrite", state,
                                   retry_exhausted(Exc(out.error)))
                            /\ UNCHANGED <<state, attempt_number, delays>>
                       ELSE /\ delays' = Append(delays,
                                   wait_exponential(attempt_number))
                            /\ attempt_number' = attempt_number + 1
                            /\ UNCHANGED <<state, pc, events, raised,
                                           failed_node>>
    /\ UNCHANGED <<settings, llm, stream, closed, retrieveOutcome,
                   safetyOutcome, synthOutcome, requests>>

RewriteOutcomes ==
    { [ok |-> TRUE, content |-> c] : c \in RewriteReplies }
      \cup { [ok |-> FALSE, error |-> e] : e \in LLMErrors }

\* ----------------------------------------------------------------- retrieve
RetrieveOutcomes ==
    { [ok |-> TRUE, docs |-> d] : d \in DocLists }
      \cup { [ok |-> FALSE, error |-> "RetrievalError"] }

RerankOutcomes(n) ==
    { [ok |-> TRUE, scores |-> sc] : sc \in ScoreLists(n) }
      \cup { [ok |-> FALSE, error |-> "RerankError"] }

Raise(e) == [raised |-> Exc(e), value |-> <<>>]
Return(v) == [raised |-> NoExc, value |-> v]

\* retrieve_docs(query, top_k): what retriever.invoke gives
retrieve_docs(query, ret) ==
    IF ret.ok THEN Return(ret.docs) ELSE Raise(ret.error)

\* sorted(zip(scores, docs), reverse=True) for pairwise different scores
SortedDocs(scores, docs) ==
    LET n == Len(docs)
        order == CHOOSE f \in [1..n -> 1..n] :
                    \A i, j \in 1..n : i < j => scores[f[i]] > scores[f[j]]
    IN [i \in 1..n |-> docs[order[i]]]

\* rerank_docs(docs, query): two equal scores make sorted() compare the
\* Document objects, which raises TypeError
rerank_docs(docs, rr) ==
    IF ~rr.ok THEN Raise(rr.error)
    ELSE IF \E i, j \in 1..Len(docs) : i # j /\ rr.scores[i] = rr.scores[j]
    THEN Raise("TypeError")
    ELSE LET sorted_docs == SortedDocs(rr.scores, docs)
             k == IF Len(sorted_docs) < top_k THEN Len(sorted_docs) ELSE top_k
         IN Return(SubSeq(sorted_docs, 1, k))

\* retrieve_node, followed by the conditional edge decide_exit
retrieve_node(ret, rr) ==
    /\ pc = "retrieve"
    /\ ~closed
    /\ executed' = Append(executed, "retrieve")
    /\ LET docs == retrieve_docs(state.query, ret)
       IN IF docs.raised # NoExc
          THEN /\ NodeRaises("retrieve", state, docs.raised)
               /\ retrieveOutcome' = docs.raised.type
               /\ UNCHANGED state
          ELSE LET reranked == rerank_docs(docs.value, rr)
               IN IF reranked.raised # NoExc
                  THEN /\ NodeRaises("retrieve", state, reranked.raised)
                       /\ retrieveOutcome' = reranked.raised.type
                       /\ UNCHANGED state
                  ELSE /\ NodeReturns("retrieve", state,
                            [state EXCEPT
                               !.context = Join(<<"\n">>, reranked.value)])
                       /\ retrieveOutcome' = "ok"
    /\ UNCHANGED <<settings, llm, attempt_number, delays, attemptLog,
                   llmCalls, stream, closed, safetyOutcome, synthOutcome, requests>>

\* --------------------------------------------------------------- synthesize
StructuredOutcomes ==
    { [ok |-> TRUE, response |-> r] : r \in StructuredAnswers }
      \cup { [ok |-> FALSE, error |-> e] : e \in StructuredErrors }

FallbackOutcomes ==
    { [ok |-> TRUE, content |-> c] : c \in FallbackReplies }
      \cup { [ok |-> FALSE, error |-> e] : e \in LLMErrors }

SynthesizePrompt(query, context) ==
    <<"Answer based on context: ">> \o context \o <<"\nQuery: ">> \o query
      \o <<"\nProvide citations.">>

Call(module, kind, prompt) ==
    [module |-> module, kind |-> kind, prompt |-> prompt]

\* how the structured call and the fallback call went: "ok", the error
\* raised, or None for a call that was not made
SynthOutcome(so, fo) ==
    IF llm.synthesize = None
    THEN [structured |-> "unconfigured", fallback |-> None]
    ELSE IF so.ok THEN [structured |-> "ok", fallback |-> None]
    ELSE [structured |-> so.error,
          fallback |-> IF fo.ok THEN "ok" ELSE fo.error]

\* synthesize_answer that tries the structured call a second time before it
\* falls back
synthesize_with_llm_retry(query, context, so, fo) ==
    LET prompt == SynthesizePrompt(query, context)
        structured == Call("synthesize", "structured", prompt)
        fallback == Call("synthesize", "invoke", prompt)
    IN IF so.ok
       THEN [raised |-> NoExc,
             value |-> so.response.answer \o <<" (Citations: ">>
                 \o Join(<<", ">>,
                      [i \in 1..Len(so.response.citations) |->
                         <<so.response.citations[i]>>])
                 \o <<")">>,
             calls |-> <<structured>>]
       ELSE IF fo.ok
       THEN [raised |-> NoExc, value |-> fo.content,
             calls |-> <<structured, structured, fallback>>]
       ELSE [raised |-> Exc(fo.error), value |-> <<>>,
             calls |-> <<structured, structured, fallback>>]

\* synthesize_answer, lines 39-47: the structured call and, when it raises,
\* the unstructured call with the same prompt
synthesize_with_llm(query, context, so, fo) ==
    LET prompt == SynthesizePrompt(query, context)
        structured == Call("synthesize", "structured", prompt)
        fallback == Call("synthesize", "invoke", prompt)
    IN IF so.ok
       THEN [raised |-> NoExc,
             value |-> so.response.answer \o <<" (Citations: ">>
                 \o Join(<<", ">>,
                      [i \in 1..Len(so.response.citations) |->
                         <<so.response.citations[i]>>])
                 \o <<")">>,
             calls |-> <<structured>>]
       ELSE IF fo.ok
       THEN [raised |-> NoExc, value |-> fo.content,
             calls |-> <<structured, fallback>>]
       ELSE [raised |-> Exc(fo.error), value |-> <<>>,
             calls |-> <<structured, fallback>>]

\* synthesize_answer whose "not configured" message leaves the query out
synthesize_answer_noquery(query, context, so, fo) ==
    IF llm.synthesize = None
    THEN [raised |-> NoExc,
          value |-> <<"Error: ", "LLM not configured.">>,
          calls |-> <<>>]
    ELSE synthesize_with_llm(query, context, so, fo)

\* synthesize_answer(query, context): the value returned or the exception
\* raised, and the language-model calls made
synthesize_answer(query, context, so, fo) ==
    IF llm.synthesize = None
    THEN [raised |-> NoExc,
          value |-> <<"Error: ", "LLM not configured. Query: ">> \o query,
          calls |-> <<>>]
    ELSE synthesize_with_llm(query, context, so, fo)

\* synthesize_node that clears the context once the answer is built
synthesize_node_clear(so, fo) ==
    /\ pc = "synthesize"
    /\ ~closed
    /\ executed' = Append(executed, "synthesize")
    /\ LET answer == synthesize_answer(state.query, state.context, so, fo)
       IN /\ llmCalls' = llmCalls \o answer.calls
          /\ IF answer.raised # NoExc
             THEN /\ NodeRaises("synthesize", state, answer.raised)
                  /\ UNCHANGED state
             ELSE NodeReturns("synthesize", state,
                    [state EXCEPT !.messages =
                                      Append(@, AIMessage(answer.value)),
                                  !.context = <<>>])
    /\ synthOutcome' = SynthOutcome(so, fo)
    /\ UNCHANGED <<settings, llm, attempt_number, delays, attemptLog,
                   stream, closed, retrieveOutcome, safetyOutcome,
                   requests>>

\* synthesize_node
synthesize_node(so, fo) ==
    /\ pc = "synthesize"
    /\ ~closed
    /\ executed' = Append(executed, "synthesize")
    /\ LET answer == synthesize_answer(state.query, state.context, so, fo)
       IN /\ llmCalls' = llmCalls \o answer.calls
          /\ IF answer.raised # NoExc
             THEN /\ NodeRaises("synthesize", state, answer.raised)
                  /\ UNCHANGED state
             ELSE NodeReturns("synthesize", state,
                    [state EXCEPT !.messages =
                        Append(@, AIMessage(answer.value))])
    /\ synthOutcome' = SynthOutcome(so, fo)
    /\ UNCHANGED <<settings, llm, attempt_number, delays, attemptLog,
                   stream, closed, retrieveOutcome, safetyOutcome,
                   requests>>

\* ------------------------------------------------------------------- safety
SafetyOutcomes ==
    { [ok |-> TRUE, content |-> c] : c \in SafetyReplies }
      \cup { [ok |-> FALSE, error |-> e] : e \in LLMErrors }

SafetyPrompt(answer, context) ==
    <<"Is this answer faithful to the context? Answer: ">> \o answer
      \o <<"\nContext: ">> \o context \o <<"\nReply yes/no.">>

\* safety_check that refuses when the faithfulness call raises
safety_check_closed(answer, context, out) ==
    IF llm.safety = None
    THEN [allow |-> TRUE, calls |-> <<>>]
    ELSE [allow |-> IF out.ok
                    THEN Lower(Strip(out.content)) = <<"y", "e", "s">>
                    ELSE FALSE,
          calls |-> << Call("safety", "invoke",
                            SafetyPrompt(answer, context)) >>]

\* safety_check(answer, context): the verdict and the calls made
safety_check(answer, context, out) ==
    IF llm.safety = None
    THEN [allow |-> TRUE, calls |-> <<>>]
    ELSE [allow |-> IF out.ok
                    THEN Lower(Strip(out.content)) = <<"y", "e", "s">>
                    ELSE TRUE,
          calls |-> << Call("safety", "invoke",
                            SafetyPrompt(answer, context)) >>]

Refusal == <<"Unsafe response detected. Refusing.">>

\* safety_node that puts the refusal in the place of the unsafe answer
safety_node_replace(out) ==
    /\ pc = "safety"
    /\ ~closed
    /\ executed' = Append(executed, "safety")
    /\ LET verdict == safety_check(Last(state.messages).content,
                                   state.context, out)
       IN /\ llmCalls' = llmCalls \o verdict.calls
          /\ NodeReturns("safety", state,
               IF ~verdict.allow
               THEN [state EXCEPT
                       !.messages[Len(state.messages)] = AIMessage(Refusal)]
               ELSE state)
    /\ safetyOutcome' =
          IF llm.safety = None THEN [kind |-> "unconfigured", content |-> <<>>]
          ELSE IF out.ok THEN [kind |-> "reply", content |-> out.content]
          ELSE [kind |-> "raised", content |-> <<out.error>>]
    /\ UNCHANGED <<settings, llm, attempt_number, delays, attemptLog,
                   stream, closed, retrieveOutcome, synthOutcome, requests>>

\* safety_node
safety_node(out) ==
    /\ pc = "safety"
    /\ ~closed
    /\ executed' = Append(executed, "safety")
    /\ LET verdict == safety_check(Last(state.messages).content,
                                   state.context, out)
       IN /\ llmCalls' = llmCalls \o verdict.calls
          /\ NodeReturns("safety", state,
               IF ~verdict.allow
               THEN [state EXCEPT !.messages = Append(@, AIMessage(Refusal))]
               ELSE state)
    /\ safetyOutcome' =
          IF llm.safety = None THEN [kind |-> "unconfigured", content |-> <<>>]
          ELSE IF out.ok THEN [kind |-> "reply", content |-> out.content]
          ELSE [kind |-> "raised", content |-> <<out.error>>]
    /\ UNCHANGED <<settings, llm, attempt_number, delays, attemptLog,
                   stream, closed, retrieveOutcome, synthOutcome, requests>>

\* ---------------------------------------------------------- stream_response
\* f"data: {content}\n\n"
DataFragment(content) == <<"data: ">> \o content \o <<"\n\n">>

\* an error fragment that lacks the "Error: " prefix
ErrorFragment_plain(error) == <<"data: ">> \o error \o <<"\n\n">>

\* f"data: Error: {error}\n\n"
ErrorFragment(error) == <<"data: ", "Error: ">> \o error \o <<"\n\n">>

\* the body of the `async for` loop for the next event of astream_events
stream_response_event ==
    /\ ~closed
    /\ events # <<>>
    /\ LET event == Head(events)
       IN /\ events' = Tail(events)
          /\ IF event.event = "on_chain_end"
                  /\ "messages" \in DOMAIN event.data
             THEN /\ stream' = Append(stream,
                        DataFragment(Last(event.data.messages).content))
                  /\ closed' = TRUE
             ELSE IF event.event = "on_chain_start"
             THEN UNCHANGED <<stream, closed>>
             ELSE IF event.event = "on_chain_error"
             THEN /\ stream' = Append(stream,
                        ErrorFragment(IF "error" \in DOMAIN event.data
                                      THEN Str(event.data.error)
                                      ELSE <<"Unknown error">>))
                  /\ closed' = TRUE
             ELSE UNCHANGED <<stream, closed>>
    /\ UNCHANGED <<settings, llm, pc, state, attempt_number, delays,
                   attemptLog, llmCalls, executed, raised, failed_node,
                   retrieveOutcome, safetyOutcome, synthOutcome, requests>>

\* an except handler that logs the error and yields nothing
stream_response_except_silent ==
    /\ ~closed
    /\ events = <<>>
    /\ raised # NoExc
    /\ closed' = TRUE
    /\ UNCHANGED <<settings, llm, pc, state, attempt_number, delays,
                   attemptLog, llmCalls, executed, events, raised, stream,
                   failed_node, retrieveOutcome, safetyOutcome, synthOutcome, requests>>

\* an except handler followed by a closing fragment
stream_response_except_done ==
    /\ ~closed
    /\ events = <<>>
    /\ raised # NoExc
    /\ stream' = stream \o << ErrorFragment(Str(raised)),
                              DataFragment(<<"[DONE]">>) >>
    /\ closed' = TRUE
    /\ UNCHANGED <<settings, llm, pc, state, attempt_number, delays,
                   attemptLog, llmCalls, executed, events, raised,
                   failed_node, retrieveOutcome, safetyOutcome, synthOutcome, requests>>

\* the `except Exception` handler: astream_events raised
stream_response_except ==
    /\ ~closed
    /\ events = <<>>
    /\ raised # NoExc
    /\ stream' = Append(stream, ErrorFragment(Str(raised)))
    /\ closed' = TRUE
    /\ UNCHANGED <<settings, llm, pc, state, attempt_number, delays,
                   attemptLog, llmCalls, executed, events, raised,
                   failed_node, retrieveOutcome, safetyOutcome, synthOutcome, requests>>

\* astream_events is exhausted: the loop ends and the generator returns
stream_response_return ==
    /\ ~closed
    /\ events = <<>>
    /\ pc = "END"
    /\ closed' = TRUE
    /\ UNCHANGED <<settings, llm, pc, state, attempt_number, delays,
                   attemptLog, llmCalls, executed, events, raised, stream,
                   failed_node, retrieveOutcome, safetyOutcome, synthOutcome, requests>>

\* ------------------------------------------------------------ specification
Next ==
    \/ \E q \in Queries : chat(q)
    \/ \E out \in RewriteOutcomes : rewrite_query(out)
    \/ \E ret \in RetrieveOutcomes :
         \E rr \in RerankOutcomes(IF ret.ok THEN Len(ret.docs) ELSE 0) :
            retrieve_node(ret, rr)
    \/ \E so \in StructuredOutcomes : \E fo \in FallbackOutcomes :
         synthesize_node(so, fo)
    \/ \E out \in SafetyOutcomes : safety_node(out)
    \/ stream_response_event
    \/ stream_response_except
    \/ stream_response_return

Spec == Init /\ [][Next]_vars

\* ------------------------------------------------ a dependency that hangs
\* retriever.invoke or reranker.predict never returns.  Neither call is given
\* a timeout (settings.timeout_sec is only reported by /config), so the
\* retrieve node stays inside the call and the run produces nothing more
retrieve_node_hangs ==
    /\ pc = "retrieve"
    /\ ~closed
    /\ pc' = "hung"
    /\ executed' = Append(executed, "retrieve")
    /\ events' = events \o << on_chain_start("retrieve", state) >>
    /\ retrieveOutcome' = "hung"
    /\ UNCHANGED <<settings, llm, state, attempt_number, delays, attemptLog,
                   llmCalls, raised, stream, closed, failed_node,
                   safetyOutcome, synthOutcome, requests>>

LiveNext == Next \/ retrieve_node_hangs

\* the event loop runs every step of the program that is ready; whether a
\* dependency hangs is not up to the program
LiveSpec == Init /\ [][LiveNext]_vars /\ WF_vars(Next)

\* ------------------------------------------------- requests in flight together
\* Every call of stream_response builds its own state dict and iterates its
\* own astream_events run of the one compiled graph; the module-level llm
\* objects, the retriever and the reranker are shared and only called.  The
\* steps below are the steps above, taken by request r on requests[r]; the
\* answers of the dependencies are drawn from a part of the sets above.
ConcQueries == {<<"asdkjasd">>, <<"What is the capital of France?">>}
ConcRewriteOutcomes ==
    { [ok |-> TRUE, content |-> <<"capital France">>],
      [ok |-> FALSE, error |-> "ProviderError"] }
ConcRetrieveOutcomes ==
    { [ok |-> TRUE, docs |-> <<>>],
      [ok |-> TRUE, docs |-> << <<"p49">>, <<"p50">> >>],
      [ok |-> FALSE, error |-> "RetrievalError"] }
ConcRerankOutcomes(n) ==
    { [ok |-> TRUE, scores |-> [i \in 1..n |-> n + 1 - i]] }
ConcStructuredOutcomes ==
    { [ok |-> TRUE,
       response |-> [answer |-> <<"Paris">>, citations |-> <<"doc1", "doc2">>]],
      [ok |-> FALSE, error |-> "SchemaError"] }
ConcFallbackOutcomes ==
    { [ok |-> TRUE, content |-> <<"Paris is the capital.">>],
      [ok |-> FALSE, error |-> "ProviderError"] }
ConcSafetyOutcomes ==
    { [ok |-> TRUE, content |-> <<"y", "e", "s">>],
      [ok |-> TRUE, content |-> <<"N", "o">>],
      [ok |-> FALSE, error |-> "Timeout"] }

\* an answer that is not consulted
Unused == [ok |-> TRUE, unused |-> TRUE]

Input(stage, a, b) == [stage |-> stage, a |-> a, b |-> b]

\* a node of request L returned state `after` (see NodeReturns)
RequestReturns(L, node, after) ==
    [L EXCEPT !.state = after,
              !.pc = workflow(node, after),
              !.events = @ \o NodeEvents(node, L.state, after)
                           \o (IF workflow(node, after) = "END"
                               THEN GraphEnd(after) ELSE <<>>)]

\* a node of request L raised e (see NodeRaises)
RequestRaises(L, node, e) ==
    [L EXCEPT !.pc = "raised",
              !.raised = e,
              !.events = @ \o << on_chain_start(node, L.state) >>]

\* request r takes a step that leaves it as L
RequestStep(r, L) ==
    /\ requests' = [requests EXCEPT ![r] = L]
    /\ UNCHANGED <<settings, llm, pc, state, attempt_number, delays,
                   attemptLog, llmCalls, executed, events, raised, stream,
                   closed, failed_node, retrieveOutcome, safetyOutcome,
                   synthOutcome>>

\* a chat that keeps the state dict in one module-level variable
conc_chat_shared(r, q) ==
    LET L == requests[r]
        s0 == [messages |-> <<HumanMessage(q)>>, query |-> q,
               context |-> <<>>]
    IN /\ L.pc = "idle"
       /\ ~L.closed
       /\ requests' =
             [o \in Requests |->
                IF o = r
                THEN [L EXCEPT
                        !.state = s0,
                        !.events = @ \o << on_chain_start("LangGraph", s0) >>,
                        !.pc = workflow("START", s0),
                        !.inputs = Append(@, Input("chat", [q |-> q],
                                                   [q |-> q]))]
                ELSE [requests[o] EXCEPT !.state = s0]]
       /\ UNCHANGED <<settings, llm, pc, state, attempt_number, delays,
                      attemptLog, llmCalls, executed, events, raised, stream,
                      closed, failed_node, retrieveOutcome, safetyOutcome,
                      synthOutcome>>

\* stream_response, lines 41-48, for request r
conc_chat(r, q) ==
    LET L == requests[r]
        s0 == [messages |-> <<HumanMessage(q)>>, query |-> q,
               context |-> <<>>]
    IN /\ L.pc = "idle"
       /\ ~L.closed
       /\ RequestStep(r,
             [L EXCEPT
                !.state = s0,
                !.events = @ \o << on_chain_start("LangGraph", s0) >>,
                !.pc = workflow("START", s0),
                !.inputs = Append(@, Input("chat", [q |-> q], [q |-> q]))])

\* one attempt of rewrite_query for request r
conc_rewrite_query(r, out) ==
    LET L == requests[r]
        In == [L EXCEPT !.inputs = Append(@, Input("rewrite", out, out))]
    IN /\ L.pc = "rewrite"
       /\ ~L.closed
       /\ IF llm.graph = None
          THEN /\ out = Unused
               /\ RequestStep(r, RequestReturns(In, "rewrite",
                      [L.state EXCEPT !.query = Last(L.state.messages).content]))
          ELSE /\ out # Unused
               /\ IF out.ok
                  THEN RequestStep(r, RequestReturns(In, "rewrite",
                          [L.state EXCEPT !.query = out.content]))
                  ELSE IF stop_after_attempt(L.attempt_number)
                  THEN RequestStep(r, RequestRaises(In, "rewrite",
                          retry_exhausted(Exc(out.error))))
                  ELSE RequestStep(r,
                          [In EXCEPT !.attempt_number = @ + 1])

\* retrieve_node and decide_exit for request r
conc_retrieve_node(r, ret, rr) ==
    LET L == requests[r]
        In == [L EXCEPT !.inputs = Append(@, Input("retrieve", ret, rr))]
        docs == retrieve_docs(L.state.query, ret)
    IN /\ L.pc = "retrieve"
       /\ ~L.closed
       /\ IF docs.raised # NoExc
          THEN /\ rr = Unused
               /\ RequestStep(r, RequestRaises(In, "retrieve", docs.raised))
          ELSE /\ rr # Unused
               /\ LET reranked == rerank_docs(docs.value, rr)
                  IN IF reranked.raised # NoExc
                     THEN RequestStep(r,
                             RequestRaises(In, "retrieve", reranked.raised))
                     ELSE RequestStep(r, RequestReturns(In, "retrieve",
                             [L.state EXCEPT
                                !.context = Join(<<"\n">>, reranked.value)]))

\* synthesize_node for request r
conc_synthesize_node(r, so, fo) ==
    LET L == requests[r]
        In == [L EXCEPT !.inputs = Append(@, Input("synthesize", so, fo))]
    IN /\ L.pc = "synthesize"
       /\ ~L.closed
       /\ IF llm.synthesize = None THEN so = Unused /\ fo = Unused
          ELSE /\ so # Unused
               /\ IF so.ok THEN fo = Unused ELSE fo # Unused
       /\ LET answer == synthesize_answer(L.state.query, L.state.context,
                                          so, fo)
          IN IF answer.raised # NoExc
             THEN RequestStep(r,
                     RequestRaises(In, "synthesize", answer.raised))
             ELSE RequestStep(r, RequestReturns(In, "synthesize",
                     [L.state EXCEPT !.messages =
                         Append(@, AIMessage(answer.value))]))

\* safety_node for request r
conc_safety_node(r, out) ==
    LET L == requests[r]
        In == [L EXCEPT !.inputs = Append(@, Input("safety", out, out))]
    IN /\ L.pc = "safety"
       /\ ~L.closed
       /\ IF llm.safety = None THEN out = Unused ELSE out # Unused
       /\ LET verdict == safety_check(Last(L.state.messages).content,
                                      L.state.context, out)
          IN RequestStep(r, RequestReturns(In, "safety",
                IF ~verdict.allow
                THEN [L.state EXCEPT
                        !.messages = Append(@, AIMessage(Refusal))]
                ELSE L.state))

\* the body of the `async for` loop of request r
conc_stream_response_event(r) ==
    LET L == requests[r]
        event == Head(L.events)
    IN /\ ~L.closed
       /\ L.events # <<>>
       /\ RequestStep(r,
             IF event.event = "on_chain_end"
                  /\ "messages" \in DOMAIN event.data
             THEN [L EXCEPT
                     !.events = Tail(@),
                     !.stream = Append(@,
                        DataFragment(Last(event.data.messages).content)),
                     !.closed = TRUE]
             ELSE IF event.event = "on_chain_start"
             THEN [L EXCEPT !.events = Tail(@)]
             ELSE IF event.event = "on_chain_error"
             THEN [L EXCEPT
                     !.events = Tail(@),
                     !.stream = Append(@,
                        ErrorFragment(IF "error" \in DOMAIN event.data
                                      THEN Str(event.data.error)
                                      ELSE <<"Unknown error">>)),
                     !.closed = TRUE]
             ELSE [L EXCEPT !.events = Tail(@)])

\* the `except Exception` handler of request r
conc_stream_response_except(r) ==
    LET L == requests[r]
    IN /\ ~L.closed
       /\ L.events = <<>>
       /\ L.raised # NoExc
       /\ RequestStep(r,
             [L EXCEPT !.stream = Append(@, ErrorFragment(Str(L.raised))),
                       !.closed = TRUE])

\* the generator of request r returns
conc_stream_response_return(r) ==
    LET L == requests[r]
    IN /\ ~L.closed
       /\ L.events = <<>>
       /\ L.pc = "END"
       /\ RequestStep(r, [L EXCEPT !.closed = TRUE])

ConcNext ==
    \E r \in Requests :
       \/ \E q \in ConcQueries : conc_chat(r, q)
       \/ \E out \in ConcRewriteOutcomes \cup {Unused} :
             conc_rewrite_query(r, out)
       \/ \E ret \in ConcRetrieveOutcomes :
             \E rr \in ConcRerankOutcomes(IF ret.ok THEN Len(ret.docs) ELSE 0)
                         \cup {Unused} :
                conc_retrieve_node(r, ret, rr)
       \/ \E so \in ConcStructuredOutcomes \cup {Unused} :
             \E fo \in ConcFallbackOutcomes \cup {Unused} :
                conc_synthesize_node(r, so, fo)
       \/ \E out \in ConcSafetyOutcomes \cup {Unused} : conc_safety_node(r, out)
       \/ conc_stream_response_event(r)
       \/ conc_stream_response_except(r)
       \/ conc_stream_response_return(r)

ConcSpec == Init /\ [][ConcNext]_vars

\* ------------------------------------------------------------- properties
RECURSIVE Count(_, _)
Count(seq, x) ==
    IF seq = <<>> THEN 0
    ELSE (IF Head(seq) = x THEN 1 ELSE 0) + Count(Tail(seq), x)

Ran(node) == \E i \in 1..Len(executed) : executed[i] = node

IsErrorFragment(f) == IsPrefix(<<"data: ", "Error: ">>, f)

\* the workflow ran to its END
Completed == pc = "END"

\* retrieve_node returned (it did not raise)
RetrieveReturned == Ran("retrieve") /\ failed_node # "retrieve"

Unconfigured ==
    llm.graph = None /\ llm.synthesize = None /\ llm.safety = None

\* C1: whenever stream_response has returned, the stream is non-empty and
\* its last fragment is an error fragment or carries an assistant message
\* (an answer or the refusal)
C1_StreamEndsWithTerminalFragment ==
    closed =>
        /\ stream # <<>>
        /\ \/ IsErrorFragment(Last(stream))
           \/ \E i \in 1..Len(state.messages) :
                 /\ state.messages[i].role = "ai"
                 /\ Last(stream) = DataFragment(state.messages[i].content)

\* C2: once Retrieve has returned, Synthesize runs next exactly when the
\* context has at least 100 characters; with a shorter context the run is at
\* its END, neither Synthesize nor SafetyCheck has run and neither has called
\* the language model
C2_SynthesizeIffContextSufficient ==
    RetrieveReturned =>
        IF CharLen(state.context) >= context_threshold
        THEN \/ pc = "synthesize"
             \/ /\ Len(executed) >= Len(attemptLog) + 2
                /\ executed[Len(attemptLog) + 2] = "synthesize"
        ELSE /\ pc = "END"
             /\ ~Ran("synthesize")
             /\ ~Ran("safety")
             /\ \A i \in 1..Len(llmCalls) : llmCalls[i].module = "graph"

C2_Witness ==
    /\ CharLen(state.context) = context_threshold
    /\ Ran("synthesize")
    /\ Ran("safety")

\* C3: when the workflow completed and the stream is closed, the stream is
\* the one success fragment carrying the content of the last message of the
\* final state (the refusal when SafetyCheck's judgment was negative)
C3_SuccessFragmentCarriesLastMessage ==
    (Completed /\ closed) =>
        stream = << DataFragment(Last(state.messages).content) >>

\* the step in which safety_node runs
SafetyStep == pc = "safety" /\ pc' # "safety"

No == <<"n", "o">>

\* C4: a SafetyCheck step that got no judgment because the language model is
\* unconfigured or the faithfulness call raised leaves the conversation as it
\* was: no refusal is appended and the synthesized answer stays last
C4_SafetyFailsOpen ==
    [][(SafetyStep /\ safetyOutcome'.kind \in {"unconfigured", "raised"})
          => /\ state'.messages = state.messages
             /\ Last(state'.messages).content # Refusal]_vars

C4_Witness ==
    /\ safetyOutcome.kind = "raised"
    /\ Completed
    /\ Len(state.messages) = 2

\* C5: a SafetyCheck step whose reply is not a "no" judgment (a "yes" or a
\* malformed reply such as "Yes.") leaves the conversation as it was; only a
\* negative judgment appends the refusal
C5_MalformedReplyAllows ==
    [][(SafetyStep /\ safetyOutcome'.kind = "reply"
          /\ Lower(Strip(safetyOutcome'.content)) # No)
          => state'.messages = state.messages]_vars

\* C6: once a node has raised, it is the last node that executed (Rewrite
\* only after all its attempts failed), and when the stream is closed it
\* holds exactly one fragment, the error fragment
C6_StageFailureEndsRun ==
    failed_node # None =>
        /\ pc = "raised"
        /\ Last(executed) = failed_node
        /\ failed_node = "rewrite" =>
              /\ Len(attemptLog) = retries
              /\ \A i \in 1..Len(attemptLog) : ~attemptLog[i].ok
        /\ Len(stream) <= 1
        /\ closed => (Len(stream) = 1 /\ IsErrorFragment(stream[1]))
        /\ ~closed => stream = <<>>

C6_Witness ==
    /\ failed_node = "synthesize"
    /\ closed
    /\ Len(stream) = 1

\* C7: when the search or the rerank of Retrieve failed, Retrieve has
\* completed with an empty context, the run took the early exit without
\* Synthesize, and no error fragment is in the stream
C7_RetrievalFailureIsEarlyExit ==
    retrieveOutcome \notin {None, "ok"} =>
        /\ failed_node = None
        /\ state.context = <<>>
        /\ pc = "END"
        /\ ~Ran("synthesize")
        /\ \A i \in 1..Len(stream) : ~IsErrorFragment(stream[i])

\* C8: with no language model configured no language-model call is ever made,
\* Rewrite leaves query equal to the user's message, Synthesize appends the
\* "not configured" message embedding that query, SafetyCheck allows it, and
\* it is the last message when the run completes
C8_UnconfiguredRun ==
    (Unconfigured /\ pc # "idle") =>
        /\ llmCalls = <<>>
        /\ Ran("rewrite") => state.query = state.messages[1].content
        /\ Ran("synthesize") =>
              /\ Len(state.messages) = 2
              /\ state.messages[2] =
                    AIMessage(<<"Error: ", "LLM not configured. Query: ">>
                                 \o state.messages[1].content)
        /\ Ran("safety") => safetyOutcome.kind = "unconfigured"
        /\ ~Ran("synthesize") => Len(state.messages) = 1

C8_Witness ==
    /\ Unconfigured
    /\ Completed
    /\ Ran("safety")
    /\ state.query # <<>>

\* the rewrite operation failed on its first two attempts and succeeded on
\* the third
FailFailOk ==
    /\ Len(attemptLog) = 3
    /\ ~attemptLog[1].ok
    /\ ~attemptLog[2].ok
    /\ attemptLog[3].ok

\* C9: when Rewrite fails twice and then succeeds, the state carries the
\* third attempt's value, the operation ran exactly 3 times, and exactly 2
\* delays occurred, the first of 1 second, non-decreasing, none above 10
C9_RetryFailFailOk ==
    FailFailOk =>
        /\ state.query = attemptLog[3].value
        /\ failed_node # "rewrite"
        /\ Count(executed, "rewrite") = 3
        /\ Len(delays) = 2
        /\ delays[1] = 1
        /\ delays[2] >= delays[1]
        /\ \A i \in 1..Len(delays) : delays[i] <= wait_max

C9_Witness ==
    /\ FailFailOk
    /\ pc = "retrieve"
    /\ state.query = <<"capital France">>

\* C10: the rewrite operation is never invoked more than 3 times, and when
\* all 3 attempts failed the exception raised to the workflow is the very
\* exception of the last attempt
C10_RetryReraisesLastFailure ==
    /\ Len(attemptLog) <= retries
    /\ Count(executed, "rewrite") = Len(attemptLog)
    /\ (Len(attemptLog) = retries
           /\ \A i \in 1..Len(attemptLog) : ~attemptLog[i].ok)
          => raised = Exc(attemptLog[retries].value)

\* the run took the early exit: Retrieve returned a context below the
\* threshold
EarlyExit == RetrieveReturned /\ decide_exit(state) = "end"

HasCitations(f) == \E i \in 1..Len(f) : f[i] = " (Citations: "

\* C13: when the run took the early exit and the stream is closed, the stream
\* ends with a "no answer" fragment: a fragment that is not an answer with
\* citations, not the refusal, and not the user's or the rewritten query
C13_EarlyExitSaysNoAnswer ==
    (EarlyExit /\ closed) =>
        /\ stream # <<>>
        /\ ~HasCitations(Last(stream))
        /\ Last(stream) # DataFragment(Refusal)
        /\ Last(stream) # DataFragment(state.query)
        /\ Last(stream) # DataFragment(state.messages[1].content)

C15_AtMostOneFragment ==
    [][/\ Len(stream') <= 1
       /\ stream # <<>> => (closed /\ stream' = stream /\ events' = events)
      ]_vars

C15_Witness ==
    /\ Len(stream) = 1
    /\ closed
    /\ failed_node = "rewrite"

Yes == <<"y", "e", "s">>

\* C16: every step extends the conversation (the old one is a prefix of the
\* new one, so the user's message stays first); a Synthesize step that
\* returns appends exactly one assistant message; a SafetyCheck step appends
\* exactly the refusal after the answer on a "no" and nothing on a "yes"
C16_ConversationAppendOnly ==
    [][/\ IsPrefix(state.messages, state'.messages)
       /\ state'.messages # <<>> => state'.messages[1].role = "human"
       /\ (pc = "synthesize" /\ pc' = "safety") =>
             /\ Len(state'.messages) = Len(state.messages) + 1
             /\ Last(state'.messages).role = "ai"
       /\ (SafetyStep /\ safetyOutcome'.kind = "reply"
             /\ Lower(Strip(safetyOutcome'.content)) = No) =>
             /\ state'.messages = Append(state.messages, AIMessage(Refusal))
             /\ state'.messages[Len(state'.messages) - 1] = Last(state.messages)
       /\ (SafetyStep /\ safetyOutcome'.kind = "reply"
             /\ Lower(Strip(safetyOutcome'.content)) = Yes) =>
             state'.messages = state.messages
      ]_vars

C16_Witness ==
    /\ Completed
    /\ Len(state.messages) = 3
    /\ state.messages[1].role = "human"
    /\ state.messages[2].content # Refusal
    /\ state.messages[3] = AIMessage(Refusal)
    /\ Lower(Strip(safetyOutcome.content)) = No

\* the order of the node invocations of a run with k attempts of Rewrite
StageOrder(k) ==
    [i \in 1..k |-> "rewrite"] \o <<"retrieve", "synthesize", "safety">>

OrderKept ==
    LET k == Len(attemptLog)
    IN /\ k <= retries
       /\ Len(executed) <= k + 3
       /\ executed = SubSeq(StageOrder(k), 1, Len(executed))
       /\ Len(executed) > k => attemptLog[k].ok
       /\ Len(executed) > k + 1 => decide_exit(state) = "continue"
       /\ pc = "END" => Len(executed) \in {k + 1, k + 3}
       /\ (pc = "END" /\ Len(executed) = k + 1) => decide_exit(state) = "end"

\* C17: the node invocations of a run are the attempts of Rewrite, then
\* Retrieve once Rewrite succeeded, then on the continue branch only
\* Synthesize followed by SafetyCheck, each at most once; nothing executes
\* after the END or after a failure
C17_StagesInOrder ==
    [][/\ OrderKept'
       /\ pc \in {"END", "raised"} => (executed' = executed /\ pc' = pc)
      ]_vars

C17_Witness ==
    /\ executed = <<"rewrite", "rewrite", "retrieve", "synthesize", "safety">>
    /\ closed

\* C19: the conversation has at least one message once the workflow has
\* started, and the query is non-empty when Retrieve is entered
C19_QueryNonEmptyEnteringRetrieve ==
    /\ pc # "idle" => Len(state.messages) >= 1
    /\ pc = "retrieve" => state.query # <<>>

\* C20: a Rewrite step changes only query; a Retrieve step changes only
\* context, to the joined text of a retrieval; Synthesize and SafetyCheck
\* change neither query nor context; the other steps leave the state alone;
\* and the contexts in the synthesis and faithfulness prompts are the context
\* of the state
C20_StagesChangeOnlyTheirPart ==
    [][/\ pc = "rewrite" =>
             /\ state'.messages = state.messages
             /\ state'.context = state.context
       /\ pc = "retrieve" =>
             /\ state'.messages = state.messages
             /\ state'.query = state.query
             /\ IF pc' = "raised" THEN state'.context = state.context
                ELSE \E d \in DocLists : state'.context = Join(<<"\n">>, d)
       /\ pc \in {"synthesize", "safety"} =>
             /\ state'.query = state.query
             /\ state'.context = state.context
       /\ pc \in {"END", "raised"} => state' = state
       /\ \A i \in 1..Len(llmCalls') :
             /\ llmCalls'[i].module = "synthesize" =>
                   llmCalls'[i].prompt =
                      SynthesizePrompt(state'.query, state'.context)
             /\ llmCalls'[i].module = "safety" =>
                   llmCalls'[i].prompt =
                      SafetyPrompt(state'.messages[2].content, state'.context)
      ]_vars

C20_Witness ==
    /\ Completed
    /\ Ran("safety")
    /\ state.query = <<"capital France">>
    /\ state.messages[1].content = <<"asdkjasd">>
    /\ CharLen(state.context) > context_threshold
    /\ \E i \in 1..Len(llmCalls) : llmCalls[i].module = "safety"

\* the step in which synthesize_node runs, and the calls it makes
SynthesizeStep == pc = "synthesize" /\ pc' # "synthesize"
NewCalls == SubSeq(llmCalls', Len(llmCalls) + 1, Len(llmCalls'))

\* C18: a Synthesize step with a configured language model runs the node
\* once and makes the structured call; when that call fails it makes exactly
\* one unstructured call with the same prompt, whose raw text, without a
\* citation list, is the appended answer; when the fallback call fails too
\* the stage fails with that error and appends nothing
C18_SynthesizeFallsBackOnce ==
    [][(SynthesizeStep /\ llm.synthesize # None) =>
          LET prompt == SynthesizePrompt(state.query, state.context)
          IN /\ executed' = Append(executed, "synthesize")
             /\ Len(NewCalls) <= 2
             /\ NewCalls[1] = Call("synthesize", "structured", prompt)
             /\ synthOutcome'.structured # "ok" =>
                   /\ NewCalls = << Call("synthesize", "structured", prompt),
                                    Call("synthesize", "invoke", prompt) >>
                   /\ IF synthOutcome'.fallback = "ok"
                      THEN /\ pc' = "safety"
                           /\ \E c \in FallbackReplies :
                                 state'.messages =
                                    Append(state.messages, AIMessage(c))
                           /\ ~HasCitations(Last(state'.messages).content)
                      ELSE /\ pc' = "raised"
                           /\ failed_node' = "synthesize"
                           /\ raised' = Exc(synthOutcome'.fallback)
                           /\ state'.messages = state.messages
      ]_vars

C18_Witness ==
    /\ synthOutcome = [structured |-> "SchemaError", fallback |-> "ok"]
    /\ Completed
    /\ state.messages[2] = AIMessage(<<"Paris is the capital.">>)
    /\ Count([i \in 1..Len(llmCalls) |-> llmCalls[i].module], "synthesize") = 2

\* C11: every request that has started eventually has its stream closed,
\* also when an external call never returns
C11_RequestTerminates == (pc # "idle") ~> closed

\* what request r has to show for itself: its state and its stream
Outcome(r) ==
    [state |-> requests[r].state, raised |-> requests[r].raised,
     pc |-> requests[r].pc, stream |-> requests[r].stream]

\* C12: a step of one request changes nothing of the other request and
\* nothing of the shared settings and language-model objects, and two
\* requests that were given the same query and the same answers by the
\* dependencies end with the same state and the same stream whatever the
\* interleaving
C12_RequestsIsolated ==
    [][/\ \A r \in Requests :
             requests'[r] # requests[r] =>
                \A o \in Requests \ {r} : requests'[o] = requests[o]
       /\ llm' = llm
       /\ settings' = settings
       /\ \A r, o \in Requests :
             (requests'[r].closed /\ requests'[o].closed
                /\ requests'[r].inputs = requests'[o].inputs) =>
                Outcome(r)' = Outcome(o)'
      ]_vars

C12_Witness ==
    /\ requests[1].closed
    /\ requests[1].pc = "raised"
    /\ requests[1].stream # <<>>
    /\ requests[2].closed
    /\ requests[2].pc = "END"
    /\ Len(requests[2].state.messages) = 3
    /\ requests[2].stream = <<>>

====
